---- MODULE Spec2Model ----
(***************************************************************************)
(* The counter store of src/stores/count.store.ts: a zustand store wrapped *)
(* in the persist middleware (record "countStore" in localStorage), its    *)
(* three selector hooks, and the two components of App.tsx that consume    *)
(* them.                                                                   *)
(*                                                                         *)
(* JavaScript values are modelled by what the operators of the source do   *)
(* to them.  A value the count field can hold is a record [kind, val]:     *)
(*   kind "int"  : the integer val                                         *)
(*   kind "frac" : the number val + 1/2                                    *)
(*   kind "str"  : the string of the decimal digits of the natural val     *)
(*   kind "null" : null                                                    *)
(* Objects are functions from field names to values; an object that has an *)
(* identity (the actions object) carries it in the field id.  A function   *)
(* value (a closure) is a record [fn, of]: its name and the store instance *)
(* whose construction created it.                                          *)
(***************************************************************************)
EXTENDS Integers, FiniteSets, Sequences, TLC

\* Bounds of the model.
MaxCalls == 4        \* increment/decrement calls per store instance
MaxRestarts == 2     \* process restarts
MaxSeed == 2         \* |count| of a snapshot left by an earlier run
MaxDigits == 4       \* digits of a string count that still takes an action
MaxExternal == 1     \* |count| of a snapshot another process writes

VARIABLES
    storage,      \* localStorage: the item stored under the name "countStore"
    state,        \* the store's state object, api.getState()
    configResult, \* the object the state creator returned at construction
    threw,        \* TRUE iff constructing the store raised an exception
    instance,     \* number of the store instance (process restarts so far)
    incs,         \* increment() calls made on this instance
    decs,         \* decrement() calls made on this instance
    seed,         \* count of this instance when its construction finished
    writes,       \* storage.setItem calls made by this instance
    lastOp,       \* the operation that ran last
    returned,     \* <<v>>: v is what the last isEven() call returned
    rerendered,   \* the consumers re-rendered by the last operation
    pre           \* what was observable before each of the last two action
                  \* calls of this instance: [op, count, even, item]

vars == <<storage, state, configResult, threw, instance, incs, decs, seed,
          writes, lastOp, returned, rerendered, pre>>

----------------------------------------------------------------------------
\* JavaScript values and the operators the source applies to them

Num(n) == [kind |-> "int", val |-> n]
Frac(n) == [kind |-> "frac", val |-> n]
Str(n) == [kind |-> "str", val |-> n]
Null == [kind |-> "null", val |-> 0]

\* a % b of JavaScript on integers: the remainder has the sign of a
JsRem(a, b) == IF a >= 0 THEN a % b ELSE -((-a) % b)

\* v + 1: addition on numbers (null is 0), concatenation on a string
Plus1(v) ==
    CASE v.kind = "int" -> Num(v.val + 1)
      [] v.kind = "frac" -> Frac(v.val + 1)
      [] v.kind = "str" -> Str(10 * v.val + 1)
      [] v.kind = "null" -> Num(1)

\* v - 1: always numeric (a digit string is converted, null is 0)
Minus1(v) ==
    CASE v.kind = "int" -> Num(v.val - 1)
      [] v.kind = "frac" -> Frac(v.val - 1)
      [] v.kind = "str" -> Num(v.val - 1)
      [] v.kind = "null" -> Num(-1)

\* v % 2 === 0
Mod2IsZero(v) ==
    CASE v.kind = "int" -> JsRem(v.val, 2) = 0
      [] v.kind = "frac" -> FALSE
      [] v.kind = "str" -> JsRem(v.val, 2) = 0
      [] v.kind = "null" -> TRUE

IsFunction(v) == "fn" \in DOMAIN v
EmptyObject == [f \in {} |-> 0]

\* Object.assign({}, a, b), { ...a, ...b }
Assign(a, b) ==
    [f \in DOMAIN a \cup DOMAIN b |-> IF f \in DOMAIN b THEN b[f] ELSE a[f]]

----------------------------------------------------------------------------
\* The store: count.store.ts

DefaultCount == 0
version == 0

\* isEven written as "not odd": count % 2 !== 1
isEvenNotOdd(get) == JsRem(get.count.val, 2) # 1

\* isEven: () => get().count % 2 === 0
isEven(get) == Mod2IsZero(get.count)

\* increment that adds its step twice
incrementTwice(s) == [count |-> Plus1(Plus1(s.count))]

\* increment: set((state) => ({ count: state.count + 1 }))
increment(s) == [count |-> Plus1(s.count)]

\* decrement with a floor: Math.max(0, state.count - 1)
decrementFloor(s) ==
    IF s.count.kind = "int" /\ s.count.val <= 0
    THEN [count |-> s.count]
    ELSE [count |-> Minus1(s.count)]

\* decrement: set((state) => ({ count: state.count - 1 }))
decrement(s) == [count |-> Minus1(s.count)]

\* (set, get) => ({ count: 0, isEven, actions: { increment, decrement } })
\* evaluated by the construction of store instance k
config(k) ==
    [count |-> Num(DefaultCount),
     isEven |-> [fn |-> "isEven", of |-> k],
     actions |-> [id |-> k,
                  increment |-> [fn |-> "increment", of |-> k],
                  decrement |-> [fn |-> "decrement", of |-> k]]]

\* no partialize option: the whole state is persisted
partializeAll(s) == s

\* partialize that also persists the derived value
partializeDerived(s) ==
    [count |-> s.count, isEven |-> [kind |-> "bool", val |-> isEven(s)]]

\* partialize: (state) => ({ count: state.count })
partialize(s) == [count |-> s.count]

\* set(partial): the new state object is the old one with partial's fields
set(s, partial) == Assign(s, partial)

----------------------------------------------------------------------------
\* The persist middleware as count.store.ts configures it: JSON storage in
\* localStorage under the name "countStore", no version option (0), no
\* migrate, the default shallow merge.

\* JSON.stringify of an object nested in the state: properties whose value
\* is a function are omitted; what is left has no identity
StringifyNested(o) ==
    [f \in {g \in DOMAIN o \ {"id"} : ~IsFunction(o[g])} |-> o[f]]

\* JSON.stringify of { state, version }
JSONstringify(env) ==
    [state |-> [f \in {g \in DOMAIN env.state : ~IsFunction(env.state[g])} |->
                   IF "kind" \in DOMAIN env.state[f]
                   THEN env.state[f]
                   ELSE StringifyNested(env.state[f])],
     version |-> env.version]

\* JSON.parse of a well-formed text, by store instance k: every nested
\* object is a new object, identical to none that a construction created
JSONparse(text, k) ==
    [f \in DOMAIN text |->
        IF f = "state"
        THEN [g \in DOMAIN text.state |->
                 IF "kind" \in DOMAIN text.state[g]
                 THEN text.state[g]
                 ELSE Assign(text.state[g], [id |-> -(k + 1)])]
        ELSE text[f]]

\* the item stored under "countStore"
Absent == [raw |-> "null"]
Malformed == [raw |-> "garbage"]
Item(text) == [raw |-> "json", text |-> text]

\* setItem: storage.setItem(name, JSON.stringify({ state: partialize({...get()}), version }))
setItem(s) == Item(JSONstringify([state |-> partialize(s), version |-> version]))

\* hydrate whose merge lets the defaults win: { ...persisted, ...current }
hydrateDefaultsWin(cfg, item, k) ==
    IF item.raw = "garbage" THEN [state |-> cfg, threw |-> FALSE]
    ELSE IF item.raw = "null" THEN [state |-> cfg, threw |-> FALSE]
    ELSE LET env == JSONparse(item.text, k)
         IN  IF "version" \in DOMAIN env /\ env.version # version
             THEN [state |-> cfg, threw |-> FALSE]
             ELSE IF "state" \in DOMAIN env
                  THEN [state |-> Assign(env.state, cfg), threw |-> FALSE]
                  ELSE [state |-> cfg, threw |-> FALSE]

\* hydrate that lets the exception of JSON.parse escape
hydrateNoCatch(cfg, item, k) ==
    IF item.raw = "garbage" THEN [state |-> cfg, threw |-> TRUE]
    ELSE IF item.raw = "null" THEN [state |-> cfg, threw |-> FALSE]
    ELSE LET env == JSONparse(item.text, k)
         IN  IF "version" \in DOMAIN env /\ env.version # version
             THEN [state |-> cfg, threw |-> FALSE]
             ELSE IF "state" \in DOMAIN env
                  THEN [state |-> Assign(cfg, env.state), threw |-> FALSE]
                  ELSE [state |-> cfg, threw |-> FALSE]

\* hydrate, run once by the construction of instance k: getItem, JSON.parse
\* (an exception it raises is caught and dropped), the version test, then
\* set(merge(persistedState, configResult), true)
hydrate(cfg, item, k) ==
    IF item.raw = "garbage" THEN [state |-> cfg, threw |-> FALSE]
    ELSE IF item.raw = "null" THEN [state |-> cfg, threw |-> FALSE]
    ELSE LET env == JSONparse(item.text, k)
         IN  IF "version" \in DOMAIN env /\ env.version # version
             THEN [state |-> cfg, threw |-> FALSE]
             ELSE IF "state" \in DOMAIN env
                  THEN [state |-> Assign(cfg, env.state), threw |-> FALSE]
                  ELSE [state |-> cfg, threw |-> FALSE]

----------------------------------------------------------------------------
\* The custom hooks and the components that use them

useCount(s) == s.count
useIsEven(s) == isEven(s)
\* the hook without a selector: it takes the entire store
useCountActionsEntireStore(s) == s

useCountActions(s) == s.actions

Consumers == {"useCount", "useIsEven", "useCountActions"}

Selected(c, s) ==
    CASE c = "useCount" -> [v |-> useCount(s)]
      [] c = "useIsEven" -> [v |-> useIsEven(s)]
      [] c = "useCountActions" -> [v |-> useCountActions(s)]

\* a hook re-renders its component when the value it selects from the new
\* state is not (Object.is) the value it selected from the old one
Rerender(prev, next) == {c \in Consumers : Selected(c, next) # Selected(c, prev)}

\* DisplayCount uses useCount and useIsEven, CountActions uses useCountActions
DisplayCount == {"useCount", "useIsEven"}
CountActions == {"useCountActions"}

----------------------------------------------------------------------------
\* Contents of the durable medium when the first store instance is built

\* nothing, an unparsable text, or the snapshot an earlier run of the store left
StoreMedia ==
    {Absent, Malformed} \cup
    {setItem([count |-> Num(n)]) : n \in (-MaxSeed)..MaxSeed}

\* well-formed JSON that no run of the store wrote
ForeignMedia ==
    {Item([state |-> [count |-> Frac(1)], version |-> version]),
     Item([state |-> [count |-> Str(5)], version |-> version]),
     Item([state |-> [count |-> Null], version |-> version]),
     Item([state |-> EmptyObject, version |-> version]),
     Item([state |-> [count |-> Num(2), actions |-> EmptyObject], version |-> version]),
     Item([state |-> [count |-> Num(3)]]),
     Item([state |-> [count |-> Num(3)], version |-> version + 1])}

----------------------------------------------------------------------------
\* Operations

\* create(persist(config, options)): the state after construction
Create(media) ==
    /\ storage \in media
    /\ instance = 0
    /\ configResult = config(0)
    /\ state = hydrate(config(0), storage, 0).state
    /\ threw = hydrate(config(0), storage, 0).threw
    /\ seed = hydrate(config(0), storage, 0).state.count
    /\ incs = 0
    /\ decs = 0
    /\ writes = 0
    /\ lastOp = "create"
    /\ returned = <<>>
    /\ rerendered = {}
    /\ pre = <<>>

\* the process restarts: a fresh store instance is built on the same medium
Restart ==
    /\ instance < MaxRestarts
    /\ LET k == instance + 1
           h == hydrate(config(k), storage, k)
       IN  /\ instance' = k
           /\ configResult' = config(k)
           /\ state' = h.state
           /\ threw' = h.threw
           /\ seed' = h.state.count
    /\ incs' = 0
    /\ decs' = 0
    /\ writes' = 0
    /\ lastOp' = "create"
    /\ returned' = <<>>
    /\ rerendered' = {}
    /\ pre' = <<>>
    /\ UNCHANGED storage

\* pre after a call of the action name: the count, isEven() and the item as
\* they are when the call starts, after those of the call before it
Observed(name) ==
    LET now == [op |-> name, count |-> state.count, even |-> isEven(state),
                item |-> storage]
    IN  IF pre = <<>> THEN <<now>> ELSE <<pre[Len(pre)], now>>

\* an action that writes the snapshot before it updates the state
ActWriteFirst(name, partial) ==
    /\ ~threw
    /\ incs + decs < MaxCalls
    /\ state.count.kind = "str" => state.count.val < 10 ^ MaxDigits
    /\ name \in DOMAIN state.actions
    /\ LET next == set(state, partial)
       IN  /\ state' = next
           /\ storage' = setItem(state)
           /\ rerendered' = Rerender(state, next)
    /\ writes' = writes + 1
    /\ lastOp' = name
    /\ pre' = Observed(name)
    /\ UNCHANGED <<configResult, threw, instance, seed, returned>>

\* an action that defers its update: the call returns before set has run
ActDeferred(name, partial) ==
    /\ ~threw
    /\ incs + decs < MaxCalls
    /\ name \in DOMAIN state.actions
    /\ rerendered' = {}
    /\ lastOp' = name
    /\ pre' = Observed(name)
    /\ UNCHANGED <<state, storage, writes, configResult, threw, instance, seed,
                   returned>>

\* a call of state.actions[name]: set(partial), then setItem(), then the
\* subscribed hooks compare their selections
Act(name, partial) ==
    /\ ~threw
    /\ incs + decs < MaxCalls
    /\ state.count.kind = "str" => state.count.val < 10 ^ MaxDigits
    /\ name \in DOMAIN state.actions
    /\ LET next == set(state, partial)
       IN  /\ state' = next
           /\ storage' = setItem(next)
           /\ rerendered' = Rerender(state, next)
    /\ writes' = writes + 1
    /\ lastOp' = name
    /\ pre' = Observed(name)
    /\ UNCHANGED <<configResult, threw, instance, seed, returned>>

Increment ==
    /\ Act("increment", increment(state))
    /\ incs' = incs + 1
    /\ decs' = decs

Decrement ==
    /\ Act("decrement", decrement(state))
    /\ decs' = decs + 1
    /\ incs' = incs

\* isEven() that stores what it computed in the state
CallIsEvenStoring ==
    /\ ~threw
    /\ "isEven" \in DOMAIN state
    /\ returned' = <<isEven(state)>>
    /\ lastOp' = "isEven"
    /\ rerendered' = {}
    /\ state' = set(state, [even |-> [kind |-> "bool", val |-> isEven(state)]])
    /\ storage' = setItem(state')
    /\ writes' = IF writes < MaxCalls THEN writes + 1 ELSE writes
    /\ UNCHANGED <<configResult, threw, instance, incs, decs, seed, pre>>

\* a call of state.isEven()
CallIsEven ==
    /\ ~threw
    /\ "isEven" \in DOMAIN state
    /\ returned' = <<isEven(state)>>
    /\ lastOp' = "isEven"
    /\ rerendered' = {}
    /\ UNCHANGED <<storage, state, configResult, threw, instance, incs, decs,
                   seed, writes, pre>>

Init == Create(StoreMedia)
InitForeign == Create(ForeignMedia)

Next == Increment \/ Decrement \/ CallIsEven \/ Restart

\* a store that listens to storage events and rehydrates from the item
ExternalWriteRehydrates ==
    /\ \E n \in (-MaxExternal)..MaxExternal : storage' = setItem([count |-> Num(n)])
    /\ storage' # storage
    /\ state' = hydrate(state, storage', instance).state
    /\ lastOp' = "external"
    /\ rerendered' = {}
    /\ UNCHANGED <<configResult, threw, instance, incs, decs, seed,
                   writes, returned, pre>>

\* another process or tab running the same store overwrites the item; this
\* store registers no storage listener and does not read the item again
ExternalWrite ==
    /\ \E n \in (-MaxExternal)..MaxExternal : storage' = setItem([count |-> Num(n)])
    /\ storage' # storage
    /\ lastOp' = "external"
    /\ rerendered' = {}
    /\ UNCHANGED <<state, configResult, threw, instance, incs, decs, seed,
                   writes, returned, pre>>

NextExternal == Increment \/ Decrement \/ Restart \/ ExternalWrite

Spec == Init /\ [][Next]_vars
SpecForeign == InitForeign /\ [][Next]_vars
SpecExternal == Init /\ [][NextExternal]_vars

TypeOK ==
    /\ state.count.kind \in {"int", "frac", "str", "null"}
    /\ threw \in BOOLEAN
    /\ instance \in 0..MaxRestarts
    /\ incs \in 0..MaxCalls /\ decs \in 0..MaxCalls
    /\ writes \in 0..MaxCalls
    /\ lastOp \in {"create", "increment", "decrement", "isEven", "external"}
    /\ Len(pre) <= 2
    /\ rerendered \subseteq Consumers

----------------------------------------------------------------------------
\* Properties

\* C1: in a store whose construction left count = 0, after any sequence of
\* increment() and decrement() calls count is the number of increment calls
\* minus the number of decrement calls.
C1_CountIsNetSum ==
    seed = Num(DefaultCount) => state.count = Num(incs - decs)

\* 0 -> increment -> increment -> decrement has been run and count is 1
C1_Witness ==
    /\ seed = Num(DefaultCount)
    /\ incs = 2 /\ decs = 1
    /\ lastOp = "decrement"
    /\ state.count = Num(1)

\* C2: in every reachable state, negative counts included, isEven() is true
\* exactly when count mod 2 = 0 (mathematical modulus), and what a call
\* returned is the parity of the count at the time of the call.
C2_IsEvenIsParity ==
    state.count.kind = "int" =>
        /\ isEven(state) = (state.count.val % 2 = 0)
        /\ useIsEven(state) = (state.count.val % 2 = 0)
        /\ lastOp = "isEven" => returned = <<state.count.val % 2 = 0>>

\* isEven() was called at count = -1, after it had been called at another
\* count, and returned false
C2_Witness ==
    /\ lastOp = "isEven"
    /\ state.count = Num(-1)
    /\ incs + decs > 0
    /\ returned = <<FALSE>>

\* C3: a restart (a fresh store instance built on the same medium) leaves
\* the count unchanged: the new instance starts with the count the old
\* instance had when the process restarted.
C3_RoundTrip ==
    [][instance' = instance + 1 =>
          /\ ~threw'
          /\ state'.count = state.count
          /\ seed' = state.count]_vars

\* a restarted store starts at 5, the count increment calls had reached
C3_Witness ==
    /\ instance = 1
    /\ lastOp = "create"
    /\ state.count = Num(5)

\* C4: built on a medium where the record is absent or unparsable, the store
\* is constructed without an error and its count is 0.
C4_DefaultFallback ==
    (lastOp = "create" /\ storage \in {Absent, Malformed}) =>
        (~threw /\ state.count = Num(DefaultCount))

\* a restart found the record unparsable and the store is at 0
C4_Witness ==
    /\ lastOp = "create"
    /\ instance = 1
    /\ storage = Malformed
    /\ ~threw
    /\ state.count = Num(DefaultCount)

\* C5: once an increment() or decrement() call of this instance has
\* completed, the record holds exactly the in-memory count, and every call
\* has written the record once.
C5_SnapshotIsCurrent ==
    incs + decs > 0 =>
        /\ storage.raw = "json"
        /\ storage.text.state.count = state.count
        /\ writes = incs + decs

\* decrement() took the count to -1 and the record, which held another
\* snapshot before, holds -1
C5_Witness ==
    /\ lastOp = "decrement"
    /\ incs + decs > 1
    /\ state.count = Num(-1)
    /\ storage.text.state.count = Num(-1)

\* C6: the state part of the record the store writes has the field count
\* and no other: neither isEven nor actions.
C6_OnlyCountPersisted ==
    storage.raw = "json" => DOMAIN storage.text.state = {"count"}

\* this instance wrote the record, and it holds count only
C6_Witness ==
    /\ writes > 0
    /\ storage.raw = "json"
    /\ DOMAIN storage.text.state = {"count"}
    /\ DOMAIN state = {"count", "isEven", "actions"}

\* C7: in every reachable state count is a finite integer, whatever the
\* medium held at construction.
C7_CountIsInteger ==
    state.count.kind = "int"

\* C8: state.actions is the object created at construction, with its
\* increment and decrement handles, after any calls and after seeding from
\* a snapshot.
C8_ActionsNeverChange ==
    /\ "actions" \in DOMAIN state
    /\ state.actions = configResult.actions
    /\ state.actions.increment = [fn |-> "increment", of |-> instance]
    /\ state.actions.decrement = [fn |-> "decrement", of |-> instance]

\* a store seeded from a snapshot took calls and still has its actions
C8_Witness ==
    /\ instance >= 1
    /\ seed # Num(DefaultCount)
    /\ incs > 0 /\ decs > 0
    /\ lastOp = "isEven"
    /\ state.actions = configResult.actions

C10_IsEvenIsPure ==
    [][lastOp' = "isEven" =>
          /\ state' = state
          /\ storage' = storage
          /\ writes' = writes
          /\ configResult' = configResult
          /\ returned' \in {<<TRUE>>, <<FALSE>>}
          /\ lastOp = "isEven" => returned' = returned]_vars

\* isEven() was called after an action had written the record once
C10_Witness ==
    /\ lastOp = "isEven"
    /\ returned = <<FALSE>>
    /\ writes = 1
    /\ storage = setItem(state)

\* C11: increment() and decrement() complete synchronously: when the call
\* has returned, count and isEven() read the old count + 1 (or - 1), and an
\* isEven() call made after an action returns the parity of the updated
\* count, not of the count the action started from.
C11_ActionsAreSynchronous ==
    [][/\ incs' = incs + 1 =>
             /\ useCount(state') = Plus1(useCount(state))
             /\ useIsEven(state') = Mod2IsZero(Plus1(state.count))
       /\ decs' = decs + 1 =>
             /\ useCount(state') = Minus1(useCount(state))
             /\ useIsEven(state') = Mod2IsZero(Minus1(state.count))
       /\ (lastOp' = "isEven" /\ pre # <<>>) =>
             returned' = <<Mod2IsZero(IF pre[Len(pre)].op = "increment"
                                      THEN Plus1(pre[Len(pre)].count)
                                      ELSE Minus1(pre[Len(pre)].count))>>]_vars

\* isEven() was read right after the increment that took the count from 0 to 1
C11_Witness ==
    /\ lastOp = "isEven"
    /\ pre # <<>>
    /\ pre[Len(pre)].op = "increment"
    /\ pre[Len(pre)].count = Num(0)
    /\ state.count = Num(1)
    /\ returned = <<FALSE>>

\* C12: an overwrite of the record by another process leaves the store's
\* state unchanged (the record is read at construction only), and the next
\* increment()/decrement() overwrites the record with the store's own
\* in-memory count + 1 / - 1, whatever the record held.
C12_LastWriterWins ==
    [][/\ lastOp' = "external" => (state' = state /\ seed' = seed)
       /\ instance' = instance => state'.count \in
              {state.count, Plus1(state.count), Minus1(state.count)}
       /\ incs' = incs + 1 =>
             /\ state'.count = Plus1(state.count)
             /\ storage' = setItem([count |-> Plus1(state.count)])
       /\ decs' = decs + 1 =>
             /\ state'.count = Minus1(state.count)
             /\ storage' = setItem([count |-> Minus1(state.count)])]_vars

\* an increment of a store that had written the record before found a
\* snapshot of another count in it and overwrote it with its own count
C12_Witness ==
    /\ lastOp = "increment"
    /\ writes >= 2
    /\ pre[Len(pre)].item.raw = "json"
    /\ pre[Len(pre)].item.text.state.count # pre[Len(pre)].count
    /\ state.count = Plus1(pre[Len(pre)].count)
    /\ storage = setItem(state)

\* C13: every increment() or decrement() call flips isEven(); a store can
\* start in either parity; increment and decrement are enabled in every
\* reachable state (up to the bound on calls of the model).
C13_ParityStateMachine ==
    /\ \E m \in StoreMedia : isEven(hydrate(config(0), m, 0).state)
    /\ \E m \in StoreMedia : ~isEven(hydrate(config(0), m, 0).state)
    /\ [](incs + decs < MaxCalls => (ENABLED Increment /\ ENABLED Decrement))
    /\ [][(incs' = incs + 1 \/ decs' = decs + 1) =>
             isEven(state') = ~isEven(state)]_vars

\* a store that started odd went odd -> even -> odd by two calls
C13_Witness ==
    /\ seed = Num(1)
    /\ incs + decs = 2
    /\ Len(pre) = 2
    /\ ~pre[1].even /\ pre[2].even /\ ~isEven(state)
    /\ lastOp = "decrement"

\* C14: a store seeded from a snapshot still has its isEven, increment and
\* decrement handles; isEven() reflects the restored count; a following
\* increment()/decrement() yields the restored count + 1 / - 1 in memory and
\* in the record.
C14_RestoredStoreWorks ==
    [][instance' >= 1 =>
          /\ DOMAIN state' = {"count", "isEven", "actions"}
          /\ IsFunction(state'.isEven)
          /\ "increment" \in DOMAIN state'.actions
          /\ "decrement" \in DOMAIN state'.actions
          /\ (lastOp' = "create" /\ storage.raw = "json") =>
                /\ state'.count = storage.text.state.count
                /\ isEven(state') = (storage.text.state.count.val % 2 = 0)
          /\ incs' = incs + 1 =>
                /\ state'.count = Num(state.count.val + 1)
                /\ storage' = setItem([count |-> Num(state.count.val + 1)])
          /\ decs' = decs + 1 =>
                /\ state'.count = Num(state.count.val - 1)
                /\ storage' = setItem([count |-> Num(state.count.val - 1)])]_vars

\* a store restored at -2 took one increment: -1 in memory and in the record
C14_Witness ==
    /\ instance >= 1
    /\ seed = Num(-2)
    /\ incs = 1 /\ decs = 0
    /\ lastOp = "increment"
    /\ state.count = Num(-1)
    /\ storage = setItem([count |-> Num(-1)])

\* C15 as stated: after increment() then decrement(), or decrement() then
\* increment(), count, isEven() and the persisted record are what they were
\* before the two calls; decrement() from a count <= 0 yields count - 1.
C15_InverseRestoresRecord ==
    /\ (Len(pre) = 2 /\ pre[1].op # pre[2].op) =>
          /\ state.count = pre[1].count
          /\ isEven(state) = pre[1].even
          /\ storage = pre[1].item
    /\ (pre # <<>> /\ pre[Len(pre)].op = "decrement"
          /\ lastOp = "decrement") =>
          state.count = Num(pre[Len(pre)].count.val - 1)
    /\ incs + decs < MaxCalls => ENABLED Decrement

\* C15 as amended: after the two calls count and isEven() are what they
\* were before them and the record holds the snapshot of that count, which
\* is the record's former content whenever the record held a snapshot;
\* decrement() from a count <= 0 yields count - 1.
C15_InverseRestoresCount ==
    /\ (Len(pre) = 2 /\ pre[1].op # pre[2].op) =>
          /\ state.count = pre[1].count
          /\ isEven(state) = pre[1].even
          /\ storage = setItem([count |-> pre[1].count])
          /\ pre[1].item.raw = "json" => storage = pre[1].item
    /\ (pre # <<>> /\ pre[Len(pre)].op = "decrement"
          /\ lastOp = "decrement") =>
          state.count = Num(pre[Len(pre)].count.val - 1)
    /\ incs + decs < MaxCalls => ENABLED Decrement

\* decrement() then increment() from 0, by way of -1, with a snapshot of 0
\* in the record before and after
C15_Witness ==
    /\ Len(pre) = 2
    /\ pre[1].op = "decrement" /\ pre[2].op = "increment"
    /\ pre[1].count = Num(0) /\ pre[2].count = Num(-1)
    /\ pre[1].item = setItem([count |-> Num(0)])
    /\ state.count = Num(0)
    /\ storage = pre[1].item

====
